---- MODULE Spec2Model ----
(***************************************************************************)
(* Model of src-tauri/src/volume_controller.rs: the process-wide           *)
(* VOLUME_CONTROLLER (a Mutex around an Option<Sender<VolumeCommand>>),     *)
(* the caller-side functions (init_volume_controller, send_command and     *)
(* its four wrappers, shutdown_volume_controller) and the worker thread    *)
(* that owns the audio endpoint.                                           *)
(*                                                                         *)
(* Levels are f32 scalars in the source.  They are modelled as exact       *)
(* hundredths (0.05 is 5, 1.0 is 100) plus the value NaN, which f32::clamp *)
(* passes through and f32::min / f32::max discard.                         *)
(***************************************************************************)
EXTENDS Integers, Sequences, FiniteSets, TLC

\* ---------------------------------------------------------------- bounds
NThreads == 2
MaxCalls == 3
MaxChannels == 2

Threads == 1..NThreads
Channels == 1..MaxChannels

\* ------------------------------------------------------- program constants
Step == 5
MinLevel == 0
MaxLevel == 100
NaN == 999

StartLevels == {0, 97}
SetLevels == {-20, 50, 150, NaN}
Platforms == {"windows", "other"}

CommandOps == {"GetVolume", "SetVolume", "VolumeUp", "VolumeDown"}

\* ------------------------------------------------------------- results
R(tag, v) == [tag |-> tag, v |-> v]
NoResult == R("None", 0)
Empty == R("Empty", 0)
Closed == R("Closed", 0)
NotInitialized == R("NotInitialized", 0)
SendFailed == R("SendFailed", 0)
RecvFailed == R("RecvFailed", 0)
Ok(v) == R("Ok", v)
ErrGet == R("ErrGet", 0)
ErrSet == R("ErrSet", 0)
Unit == R("Unit", 0)

Min(a, b) == IF a < b THEN a ELSE b
Max(a, b) == IF a > b THEN a ELSE b

\* variant: the requested level is applied unclamped
ClampNone(l) == l

\* f32::clamp(0.0, 1.0): NaN stays NaN
Clamp(l) == IF l = NaN THEN NaN ELSE IF l < MinLevel THEN MinLevel ELSE IF l > MaxLevel THEN MaxLevel ELSE l

\* variant: the step up is not capped
UpLevelUncapped(c) == c + Step

\* (current + 0.05).min(1.0): f32::min returns the non-NaN operand
UpLevel(c) == IF c = NaN THEN MaxLevel ELSE Min(c + Step, MaxLevel)

\* (current - 0.05).max(0.0)
DownLevel(c) == IF c = NaN THEN MinLevel ELSE Max(c - Step, MinLevel)

VARIABLES
    controller,       \* VOLUME_CONTROLLER's Option<Sender>: 0 is None, ch is Some(tx of ch)
    lock,             \* holder of the VOLUME_CONTROLLER mutex, 0 when free
    pc,               \* per caller thread: "idle", or "waiting" in response_rx.recv()
    op,               \* per caller thread: the function being executed
    arg,              \* per caller thread: the level passed to set_volume
    result,           \* per caller thread: what the last call returned
    reply,            \* per caller thread: the call's response channel
    queue,            \* per command channel: commands sent and not yet received
    wpc,              \* per command channel: position of its worker thread
    level,            \* the endpoint's master volume scalar
    platform,         \* which volume_worker_thread the build contains
    comInits,         \* per worker: successful CoInitializeEx calls
    comUninits,       \* per worker: CoUninitialize calls
    endpoint,         \* per worker: "none", "held", "released"
    channelsCreated,  \* mpsc::channel::<VolumeCommand>() calls so far
    workersSpawned,   \* thread::spawn calls so far
    calls,            \* calls begun so far (bounded by MaxCalls)
    inflight,         \* per worker: the VolumeUp / VolumeDown command between its read and its write
    lastNative,       \* the worker that made the latest native endpoint call, 0 before any (history)
    startFailed,      \* per worker: its startup failed (history)
    initCalled,       \* init_volume_controller has been called (history)
    shutdownReturned, \* "no", "noop" (found no sender) or "sent" (found one) (history)
    began,            \* per caller thread: shutdownReturned and controller when its call began (history)
    work,             \* per caller thread: what the worker did for its command (history)
    startLevel,       \* the endpoint level when the process started (history)
    upsOk,            \* volume_up calls that returned Ok (history)
    otherWriter,      \* a SetVolume or VolumeDown write reached the endpoint (history)
    shortcut          \* per caller thread: "none", or where the shortcut handler it runs is:
                      \* "pressed" (in volume_up / volume_down), "emitted", "silent"

vars == <<controller, lock, pc, op, arg, result, reply, queue, wpc, level, platform,
          comInits, comUninits, endpoint, channelsCreated, workersSpawned, calls,
          inflight, lastNative, startFailed, initCalled, shutdownReturned, began, work,
          startLevel, upsOk, otherWriter, shortcut>>

callerVars == <<pc, op, arg, result, reply, began>>
workerVars == <<wpc, comInits, comUninits, endpoint, startFailed, inflight, lastNative>>
countVars == <<channelsCreated, workersSpawned>>
histVars == <<initCalled, shutdownReturned, work, upsOk, otherWriter>>

NoWork == [done |-> FALSE, read |-> {}, wrote |-> {}, res |-> NoResult, sent |-> 0, before |-> {}]

Init ==
    /\ controller = 0
    /\ lock = 0
    /\ pc = [t \in Threads |-> "idle"]
    /\ op = [t \in Threads |-> "None"]
    /\ arg = [t \in Threads |-> 0]
    /\ result = [t \in Threads |-> NoResult]
    /\ reply = [t \in Threads |-> Closed]
    /\ queue = [ch \in Channels |-> <<>>]
    /\ wpc = [ch \in Channels |-> "none"]
    /\ level \in StartLevels
    /\ platform \in Platforms
    /\ comInits = [ch \in Channels |-> 0]
    /\ comUninits = [ch \in Channels |-> 0]
    /\ endpoint = [ch \in Channels |-> "none"]
    /\ channelsCreated = 0
    /\ workersSpawned = 0
    /\ calls = 0
    /\ inflight = [ch \in Channels |-> <<>>]
    /\ lastNative = 0
    /\ startFailed = [ch \in Channels |-> FALSE]
    /\ initCalled = FALSE
    /\ shutdownReturned = "no"
    /\ began = [t \in Threads |-> [shutdown |-> "no", chan |-> 0]]
    /\ work = [t \in Threads |-> NoWork]
    /\ startLevel = level
    /\ upsOk = 0
    /\ otherWriter = FALSE
    /\ shortcut = [t \in Threads |-> "none"]

\* ------------------------------------------------------------ callers
\* Every public function starts with VOLUME_CONTROLLER.lock().  A thread that
\* has to wait there has changed nothing yet, so a call is taken to begin when
\* it gets the lock; init and shutdown then run to their return, send_command
\* runs to its response_rx.recv().

\* thread t calls function o with argument a and gets the guard
Enter(t, o, a) ==
    /\ pc[t] = "idle"
    /\ lock = 0
    /\ calls < MaxCalls
    /\ calls' = calls + 1
    /\ op' = [op EXCEPT ![t] = o]
    /\ arg' = [arg EXCEPT ![t] = a]
    /\ began' = [began EXCEPT ![t] = [shutdown |-> shutdownReturned, chan |-> controller]]
    /\ initCalled' = (initCalled \/ o = "Init")

\* variant: init never finds the controller initialized
NeverInitialized == FALSE

\* variant: init looks at whether a worker is running, not at the stored sender
InitializedAndRunning == controller # 0 /\ wpc[controller] # "done"

\* controller.is_some()
AlreadyInitialized == controller # 0

\* receiving half of channel ch dropped: tx.send fails
RxDropped(ch) == wpc[ch] = "done"

init_volume_controller(t) ==
    /\ Enter(t, "Init", 0)
    /\ IF AlreadyInitialized
       THEN UNCHANGED <<controller, queue, wpc, countVars>>
       ELSE LET ch == channelsCreated + 1 IN
            /\ channelsCreated' = ch
            /\ controller' = ch
            /\ queue' = [queue EXCEPT ![ch] = <<>>]
            /\ workersSpawned' = workersSpawned + 1
            /\ wpc' = [wpc EXCEPT ![ch] = "start"]
    /\ result' = [result EXCEPT ![t] = Unit]
    /\ work' = [work EXCEPT ![t] = NoWork]
    /\ UNCHANGED <<lock, pc, reply, level, platform, comInits, comUninits, endpoint,
                   inflight, lastNative, startFailed, shutdownReturned, upsOk, otherWriter,
                   startLevel, shortcut>>

\* variant: the lookup failure is reported as a send failure
LookupErrorWrong == SendFailed

\* .ok_or("Volume controller not initialized")
LookupError == NotInitialized

\* create_command(response_tx): the command carries its own reply sender
NewCommand(t, o, a) == [op |-> o, arg |-> a, reply |-> t]
ShutdownCommand == [op |-> "Shutdown", arg |-> 0, reply |-> 0]

\* send_command up to tx.send(...): look the sender up, create the response
\* channel, send the command.  On success the guard stays alive: the lock is
\* held while the thread waits in response_rx.recv().
send_command(t, o, a) ==
    /\ o \in CommandOps
    /\ Enter(t, o, a)
    /\ work' = [work EXCEPT ![t] = NoWork]
    /\ IF controller = 0
       THEN /\ result' = [result EXCEPT ![t] = LookupError]
            /\ UNCHANGED <<reply, queue, pc, lock>>
       ELSE IF RxDropped(controller)
       THEN /\ result' = [result EXCEPT ![t] = SendFailed]
            /\ UNCHANGED <<reply, queue, pc, lock>>
       ELSE /\ queue' = [queue EXCEPT ![controller] = Append(@, NewCommand(t, o, a))]
            /\ reply' = [reply EXCEPT ![t] = Empty]
            /\ pc' = [pc EXCEPT ![t] = "waiting"]
            /\ lock' = t
            /\ result' = [result EXCEPT ![t] = NoResult]
    /\ UNCHANGED <<controller, level, platform, workerVars, countVars, shutdownReturned,
                   upsOk, otherWriter, startLevel>>

\* let _ = volume_controller::volume_up(); let _ = app.emit("volume-changed", ()):
\* what the shortcut handler does once the call has returned r
Emit(r) == "emitted"

\* variant: a closed response channel is turned into a default level
RecvOutcomeDefault(slot) == IF slot = Closed THEN Ok(MinLevel) ELSE slot

\* response_rx.recv().map_err(|_| "Failed to receive response ...")?
RecvOutcome(slot) == IF slot = Closed THEN RecvFailed ELSE slot

\* send_command from response_rx.recv() on: blocks until the reply is there
\* or the reply sender is gone, then returns and drops the guard
recv_response(t) ==
    /\ pc[t] = "waiting"
    /\ reply[t] # Empty
    /\ pc' = [pc EXCEPT ![t] = "idle"]
    /\ lock' = 0
    /\ result' = [result EXCEPT ![t] = RecvOutcome(reply[t])]
    /\ reply' = [reply EXCEPT ![t] = Closed]
    /\ upsOk' = IF op[t] = "VolumeUp" /\ RecvOutcome(reply[t]).tag = "Ok" THEN upsOk + 1 ELSE upsOk
    /\ shortcut' = [shortcut EXCEPT ![t] = IF @ = "pressed" THEN Emit(RecvOutcome(reply[t])) ELSE @]
    /\ UNCHANGED <<controller, op, arg, began, queue, level, platform, workerVars, countVars, calls,
                   initCalled, shutdownReturned, work, otherWriter, startLevel>>

\* get_volume / set_volume / volume_up / volume_down called directly (by the
\* tauri commands)
volume_call(t, o, a) ==
    /\ send_command(t, o, a)
    /\ shortcut' = [shortcut EXCEPT ![t] = "none"]

\* the global-shortcut handler on a Pressed event of Alt+Up (o is VolumeUp)
\* or Alt+Down (VolumeDown), up to the point where the call blocks or returns
shortcut_handler(t, o) ==
    /\ o \in {"VolumeUp", "VolumeDown"}
    /\ send_command(t, o, 0)
    /\ shortcut' = [shortcut EXCEPT ![t] = IF pc'[t] = "waiting" THEN "pressed" ELSE Emit(result'[t])]

shutdown_volume_controller(t) ==
    /\ Enter(t, "Shutdown", 0)
    /\ IF controller # 0 /\ ~RxDropped(controller)
       THEN queue' = [queue EXCEPT ![controller] = Append(@, ShutdownCommand)]
       ELSE UNCHANGED queue
    /\ result' = [result EXCEPT ![t] = Unit]
    /\ work' = [work EXCEPT ![t] = NoWork]
    /\ shutdownReturned' = IF controller # 0 THEN "sent"
                           ELSE IF shutdownReturned = "sent" THEN "sent" ELSE "noop"
    /\ UNCHANGED <<controller, lock, pc, reply, level, platform, workerVars, countVars,
                   upsOk, otherWriter, startLevel, shortcut>>

\* ------------------------------------------------------------- worker

\* volume_worker_thread up to the CoInitializeEx check (the whole body of the
\* non-Windows stub)
WorkerStart(ch) ==
    /\ wpc[ch] = "start"
    /\ \E ok \in BOOLEAN :
         IF platform = "windows" /\ ok
         THEN /\ comInits' = [comInits EXCEPT ![ch] = @ + 1]
              /\ wpc' = [wpc EXCEPT ![ch] = "com"]
              /\ UNCHANGED startFailed
         ELSE /\ wpc' = [wpc EXCEPT ![ch] = "exit"]
              /\ startFailed' = [startFailed EXCEPT ![ch] = TRUE]
              /\ UNCHANGED comInits
    /\ UNCHANGED <<controller, lock, callerVars, queue, level, platform, comUninits, endpoint,
                   inflight, lastNative, countVars, calls, histVars, startLevel, shortcut>>

\* variant: the early return after a failed get_audio_endpoint() skips CoUninitialize()
OnEndpointFailureReturn == "exit"

\* Err(e) => { eprintln!(..); CoUninitialize(); return; }
OnEndpointFailure == "uninit"

\* match get_audio_endpoint()
WorkerGetEndpoint(ch) ==
    /\ wpc[ch] = "com"
    /\ \E ok \in BOOLEAN :
         IF ok
         THEN /\ endpoint' = [endpoint EXCEPT ![ch] = "held"]
              /\ wpc' = [wpc EXCEPT ![ch] = "loop"]
              /\ UNCHANGED startFailed
         ELSE /\ wpc' = [wpc EXCEPT ![ch] = OnEndpointFailure]
              /\ startFailed' = [startFailed EXCEPT ![ch] = TRUE]
              /\ UNCHANGED endpoint
    /\ UNCHANGED <<controller, lock, callerVars, queue, level, platform, comInits, comUninits,
                   inflight, lastNative, countVars, calls, histVars, startLevel, shortcut>>

\* What the worker does with one command at endpoint level cur, the native
\* read succeeding iff getOk and the native write iff setOk:
\* the level read, the level written, the level afterwards, the reply.
Outcome(read, wrote, lvl, res) == [read |-> read, wrote |-> wrote, lvl |-> lvl, res |-> res]

HandleGetVolume(cur, getOk) ==
    IF getOk THEN Outcome({cur}, {}, cur, Ok(cur)) ELSE Outcome({}, {}, cur, ErrGet)

HandleSetVolume(cur, l, setOk) ==
    LET clamped == Clamp(l) IN
    IF setOk THEN Outcome({}, {clamped}, clamped, Ok(clamped))
    ELSE Outcome({}, {clamped}, cur, ErrSet)

HandleStep(cur, new_level, getOk, setOk) ==
    IF ~getOk THEN Outcome({}, {}, cur, ErrGet)
    ELSE IF setOk THEN Outcome({cur}, {new_level}, new_level, Ok(new_level))
    ELSE Outcome({cur}, {new_level}, cur, ErrSet)

\* variant: the step up starts from the level cached when the process started
HandleVolumeUpCached(cur, getOk, setOk) == HandleStep(startLevel, UpLevel(startLevel), getOk, setOk)

HandleVolumeUp(cur, getOk, setOk) == HandleStep(cur, UpLevel(cur), getOk, setOk)

HandleVolumeDown(cur, getOk, setOk) == HandleStep(cur, DownLevel(cur), getOk, setOk)

Handle(cmd, cur, getOk, setOk) ==
    CASE cmd.op = "GetVolume" -> HandleGetVolume(cur, getOk)
      [] cmd.op = "SetVolume" -> HandleSetVolume(cur, cmd.arg, setOk)
      [] cmd.op = "VolumeUp" -> HandleVolumeUp(cur, getOk, setOk)
      [] cmd.op = "VolumeDown" -> HandleVolumeDown(cur, getOk, setOk)

\* variant: Shutdown does not leave the loop
OnShutdownContinue == "loop"

\* VolumeCommand::Shutdown => break: the worker goes on to CoUninitialize()
OnShutdown == "uninit"

\* variant: only a successful result is sent back
RepliesOnlyOk(res) == IF res.tag = "Ok" THEN <<res>> ELSE <<>>

\* let _ = response_tx.send(result): what the worker sends on the command's
\* reply channel, once in each arm of the match
Replies(res) == <<res>>

\* variant: a native failure ends the loop
AfterCommandStopOnError(res) == IF res.tag = "Ok" THEN "loop" ELSE "uninit"

\* end of a match arm: back to rx.recv(), whatever the result was
AfterCommand(res) == "loop"

\* all senders of channel ch are gone: rx.recv() returns Err once the queue is empty
NoSender(ch) == controller # ch

StepOps == {"VolumeUp", "VolumeDown"}

\* the worker has the result o of command cmd, which found the endpoint at
\* level cur: the level, the reply channel of the command, the next turn
Finish(ch, cmd, cur, o) ==
    /\ level' = IF o.res.tag = "Ok" /\ o.wrote # {} THEN o.lvl ELSE level
    /\ reply' = [reply EXCEPT ![cmd.reply] =
                   IF pc[cmd.reply] # "waiting" THEN @
                   ELSE IF Replies(o.res) = <<>> THEN Closed ELSE Replies(o.res)[1]]
    /\ work' = [work EXCEPT ![cmd.reply] =
                  [done |-> TRUE, read |-> o.read, wrote |-> o.wrote, res |-> o.res,
                   sent |-> Len(Replies(o.res)), before |-> {cur}]]
    /\ otherWriter' = (otherWriter \/
                       (cmd.op \in {"SetVolume", "VolumeDown"} /\ o.res.tag = "Ok"))
    /\ wpc' = [wpc EXCEPT ![ch] = AfterCommand(o.res)]
    /\ lastNative' = ch

\* one turn of `while let Ok(cmd) = rx.recv()` up to the end of the arm, or
\* for VolumeUp / VolumeDown up to the successful GetMasterVolumeLevelScalar()
WorkerLoop(ch) ==
    /\ wpc[ch] = "loop"
    /\ IF queue[ch] = <<>>
       THEN /\ NoSender(ch)
            /\ wpc' = [wpc EXCEPT ![ch] = "uninit"]
            /\ UNCHANGED <<queue, level, reply, work, otherWriter, inflight, lastNative>>
       ELSE LET cmd == Head(queue[ch]) IN
            /\ queue' = [queue EXCEPT ![ch] = Tail(@)]
            /\ IF cmd.op = "Shutdown"
               THEN /\ wpc' = [wpc EXCEPT ![ch] = OnShutdown]
                    /\ UNCHANGED <<level, reply, work, otherWriter, inflight, lastNative>>
               ELSE \E getOk \in BOOLEAN, setOk \in BOOLEAN :
                    IF cmd.op \in StepOps /\ getOk
                    THEN /\ inflight' = [inflight EXCEPT ![ch] = <<[cmd |-> cmd, cur |-> level]>>]
                         /\ wpc' = [wpc EXCEPT ![ch] = "write"]
                         /\ lastNative' = ch
                         /\ UNCHANGED <<level, reply, work, otherWriter>>
                    ELSE /\ Finish(ch, cmd, level, Handle(cmd, level, getOk, setOk))
                         /\ UNCHANGED inflight
    /\ UNCHANGED <<controller, lock, pc, op, arg, result, began, platform, comInits, comUninits,
                   endpoint, startFailed, countVars, calls, initCalled, shutdownReturned, upsOk,
                   startLevel, shortcut>>

\* VolumeUp / VolumeDown from SetMasterVolumeLevelScalar(new_level, ..) to the
\* end of the arm
WorkerWrite(ch) ==
    /\ wpc[ch] = "write"
    /\ \E setOk \in BOOLEAN :
         LET f == inflight[ch][1] IN
         Finish(ch, f.cmd, f.cur, Handle(f.cmd, f.cur, TRUE, setOk))
    /\ inflight' = [inflight EXCEPT ![ch] = <<>>]
    /\ UNCHANGED <<controller, lock, pc, op, arg, result, began, queue, platform, comInits,
                   comUninits, endpoint, startFailed, countVars, calls, initCalled,
                   shutdownReturned, upsOk, startLevel, shortcut>>

\* CoUninitialize(): after the loop, and on the endpoint-failure path
WorkerCoUninitialize(ch) ==
    /\ wpc[ch] = "uninit"
    /\ comUninits' = [comUninits EXCEPT ![ch] = @ + 1]
    /\ wpc' = [wpc EXCEPT ![ch] = IF endpoint[ch] = "held" THEN "release" ELSE "exit"]
    /\ UNCHANGED <<controller, lock, callerVars, queue, level, platform, comInits, endpoint,
                   inflight, lastNative, startFailed, countVars, calls, histVars, startLevel, shortcut>>

\* end of the unsafe block: the local `endpoint` is dropped
WorkerDropEndpoint(ch) ==
    /\ wpc[ch] = "release"
    /\ endpoint' = [endpoint EXCEPT ![ch] = "released"]
    /\ wpc' = [wpc EXCEPT ![ch] = "exit"]
    /\ UNCHANGED <<controller, lock, callerVars, queue, level, platform, comInits, comUninits,
                   inflight, lastNative, startFailed, countVars, calls, histVars, startLevel, shortcut>>

\* variant: the queued commands are leaked, their reply senders never dropped
DroppedRepliesLeaked(q) == {}

\* the reply senders of the commands still queued are dropped with the queue
DroppedReplies(q) == {q[i].reply : i \in 1..Len(q)} \ {0}

\* the thread function returns: `rx` is dropped, and with it every queued command
WorkerReturn(ch) ==
    /\ wpc[ch] = "exit"
    /\ wpc' = [wpc EXCEPT ![ch] = "done"]
    /\ reply' = [t \in Threads |-> IF t \in DroppedReplies(queue[ch]) THEN Closed ELSE reply[t]]
    /\ queue' = [queue EXCEPT ![ch] = <<>>]
    /\ UNCHANGED <<controller, lock, pc, op, arg, result, began, level, platform, comInits,
                   comUninits, endpoint, inflight, lastNative, startFailed, countVars, calls,
                   histVars, startLevel, shortcut>>

\* ------------------------------------------------------ specification

Arguments(o) == IF o = "SetVolume" THEN SetLevels ELSE {0}

Next ==
    \/ \E t \in Threads : init_volume_controller(t)
    \/ \E t \in Threads, o \in CommandOps : \E a \in Arguments(o) : volume_call(t, o, a)
    \/ \E t \in Threads : recv_response(t)
    \/ \E t \in Threads : shutdown_volume_controller(t)
    \/ \E ch \in Channels : WorkerStart(ch)
    \/ \E ch \in Channels : WorkerGetEndpoint(ch)
    \/ \E ch \in Channels : WorkerLoop(ch)
    \/ \E ch \in Channels : WorkerWrite(ch)
    \/ \E ch \in Channels : WorkerCoUninitialize(ch)
    \/ \E ch \in Channels : WorkerDropEndpoint(ch)
    \/ \E ch \in Channels : WorkerReturn(ch)

Spec == Init /\ [][Next]_vars

\* The worker is an operating-system thread that runs whenever it can take a
\* step, and so is a caller blocked in response_rx.recv() once that can return.
\* Nothing obliges a thread to call a function.
Fairness ==
    /\ \A ch \in Channels :
          /\ WF_vars(WorkerStart(ch))
          /\ WF_vars(WorkerGetEndpoint(ch))
          /\ WF_vars(WorkerLoop(ch))
          /\ WF_vars(WorkerWrite(ch))
          /\ WF_vars(WorkerCoUninitialize(ch))
          /\ WF_vars(WorkerDropEndpoint(ch))
          /\ WF_vars(WorkerReturn(ch))
    /\ \A t \in Threads : WF_vars(recv_response(t))

FairSpec == Spec /\ Fairness

\* the same program with the global shortcuts registered by run()
NextWithShortcuts ==
    \/ Next
    \/ \E t \in Threads, o \in {"VolumeUp", "VolumeDown"} : shortcut_handler(t, o)

ShortcutSpec == Init /\ [][NextWithShortcuts]_vars

\* ------------------------------------------------------------ properties

Quiescent == \A t \in Threads : pc[t] = "idle"
Returned(t) == pc[t] = "idle" /\ result[t] # NoResult
ChannelErrors == {SendFailed, RecvFailed}
CallErrors == {NotInitialized, SendFailed, RecvFailed}
WorkerTags == {"Ok", "ErrGet", "ErrSet"}
InRange(c) == c # NaN /\ MinLevel <= c /\ c <= MaxLevel

\* the step of the behaviour is a call of init_volume_controller by thread t
InitCall(t) == init_volume_controller(t)

\* C1: however many times and from whichever threads init_volume_controller
\* is called, at most one command channel is ever created and at most one
\* worker thread spawned; a call that finds a sender stored creates and
\* spawns nothing and leaves the stored sender as it is.
C1_InitOnce ==
    [][/\ channelsCreated' <= 1
       /\ workersSpawned' <= 1
       /\ \A t \in Threads :
            (InitCall(t) /\ controller # 0) =>
               UNCHANGED <<controller, channelsCreated, workersSpawned, wpc, queue>>]_vars

\* two threads have both called init, and one channel and one worker exist
C1_Witness ==
    /\ \A t \in Threads : op[t] = "Init" /\ Returned(t)
    /\ channelsCreated = 1
    /\ workersSpawned = 1
    /\ controller = 1

ReadOps == {"GetVolume", "VolumeUp", "VolumeDown"}

\* C2 (as stated): once a shutdown_volume_controller call has returned, every
\* get_volume / volume_up / volume_down call that starts afterwards returns
\* an error and never an Ok level.
C2_ErrorAfterAnyShutdown ==
    \A t \in Threads :
        (op[t] \in ReadOps /\ began[t].shutdown # "no" /\ Returned(t)) => result[t] \in CallErrors

\* C2 (amended): once a shutdown_volume_controller call that found a sender
\* stored has returned, every get_volume / volume_up / volume_down call that
\* starts afterwards returns "not initialized", "send failed" or "receive
\* failed" and never an Ok level, wherever the worker is with the Shutdown
\* command when the call is made.
C2_ErrorAfterShutdown ==
    \A t \in Threads :
        (op[t] \in ReadOps /\ began[t].shutdown = "sent" /\ Returned(t)) => result[t] \in CallErrors

\* a call made after shutdown got its command queued behind Shutdown and
\* failed on the dropped reply sender
C2_Witness ==
    \E t \in Threads :
        /\ op[t] \in ReadOps
        /\ began[t].shutdown = "sent"
        /\ Returned(t)
        /\ result[t] = RecvFailed
        /\ comInits[1] = 1

\* C3: with no SetVolume or VolumeDown write in between, once all calls have
\* returned the endpoint level is the starting level stepped up, with the
\* cap, once per volume_up call that returned Ok: no increment is lost.
C3_NoLostIncrement ==
    (Quiescent /\ ~otherWriter) =>
        level = (IF startLevel + upsOk * Step > MaxLevel THEN MaxLevel ELSE startLevel + upsOk * Step)

\* two threads have each had a volume_up return Ok, below the cap
C3_Witness ==
    /\ Quiescent
    /\ ~otherWriter
    /\ upsOk = 2
    /\ \A t \in Threads : op[t] = "VolumeUp" /\ result[t].tag = "Ok"
    /\ level = startLevel + 2 * Step

ExpectedClamp(l) ==
    CASE l = NaN -> NaN
      [] l # NaN /\ l < 0 -> 0
      [] l # NaN /\ l > 100 -> 100
      [] OTHER -> l

\* C4: a set_volume(L) call that returns Ok returns clamp(L, 0.0, 1.0), and
\* that is the value the worker wrote to the endpoint for it; until the
\* caller has taken the reply the endpoint level is that value.
C4_SetVolumeClamps ==
    \A t \in Threads :
        /\ (op[t] = "SetVolume" /\ Returned(t) /\ result[t].tag = "Ok") =>
              /\ result[t].v = ExpectedClamp(arg[t])
              /\ work[t].wrote = {ExpectedClamp(arg[t])}
        /\ (op[t] = "SetVolume" /\ pc[t] = "waiting" /\ work[t].done /\ work[t].res.tag = "Ok") =>
              /\ level = ExpectedClamp(arg[t])
              /\ work[t].res.v = ExpectedClamp(arg[t])

\* set_volume(1.5) has returned Ok(1.0) and the endpoint is at 1.0
C4_Witness ==
    \E t \in Threads :
        /\ op[t] = "SetVolume"
        /\ arg[t] = 150
        /\ result[t] = Ok(100)
        /\ level = 100

ExpectedUp(c) == IF c + 5 < 100 THEN c + 5 ELSE 100
ExpectedDown(c) == IF c - 5 > 0 THEN c - 5 ELSE 0

\* C5: a volume_up that returns Ok at endpoint level C in [0,1] wrote and
\* returns min(C + 0.05, 1.0), a volume_down max(C - 0.05, 0.0); at 1.0
\* (resp. 0.0) the call succeeds and the level stays where it was.
C5_StepClamped ==
    \A t \in Threads :
        \A c \in work[t].read :
            (InRange(c) /\ work[t].res.tag = "Ok") =>
                /\ op[t] = "VolumeUp" =>
                      /\ work[t].wrote = {ExpectedUp(c)}
                      /\ work[t].res.v = ExpectedUp(c)
                      /\ (pc[t] = "waiting" => level = ExpectedUp(c))
                      /\ (Returned(t) => result[t] = Ok(ExpectedUp(c)))
                      /\ (c = 100 => work[t].wrote = {100})
                /\ op[t] = "VolumeDown" =>
                      /\ work[t].wrote = {ExpectedDown(c)}
                      /\ work[t].res.v = ExpectedDown(c)
                      /\ (pc[t] = "waiting" => level = ExpectedDown(c))
                      /\ (Returned(t) => result[t] = Ok(ExpectedDown(c)))
                      /\ (c = 0 => work[t].wrote = {0})

\* volume_up at level 1.0 has been repeated and returned Ok(1.0) both times
C5_Witness ==
    /\ \A t \in Threads :
          /\ op[t] = "VolumeUp"
          /\ result[t] = Ok(100)
    /\ \E t \in Threads : work[t].read = {100}
    /\ level = 100

\* C6: as long as init_volume_controller has not been called, every
\* get_volume / set_volume / volume_up / volume_down call returns "not
\* initialized" at once: no command is queued, no caller waits for a reply,
\* and the controller state stays absent.
C6_NotInitialized ==
    ~initCalled =>
        /\ controller = 0
        /\ \A ch \in Channels : queue[ch] = <<>>
        /\ \A t \in Threads :
              /\ pc[t] = "idle"
              /\ lock = 0
              /\ op[t] \in CommandOps => result[t] = NotInitialized

\* before any init, a call of each thread has returned "not initialized"
C6_Witness ==
    /\ ~initCalled
    /\ \A t \in Threads : op[t] \in CommandOps /\ result[t] = NotInitialized
    /\ \E t \in Threads : op[t] = "SetVolume"

\* C7: after shutdown_volume_controller has returned the controller state
\* holds no sender, and the get_volume / set_volume / volume_up /
\* volume_down calls that start afterwards fail with "not initialized".
C7_ShutdownClearsState ==
    /\ shutdownReturned # "no" => controller = 0
    /\ \A t \in Threads :
          (op[t] \in CommandOps /\ began[t].shutdown # "no" /\ Returned(t)) =>
              result[t] = NotInitialized

NoWorkerRunning == \A ch \in Channels : wpc[ch] \in {"none", "done"}

Creates(ch) ==
    /\ channelsCreated' = channelsCreated + 1
    /\ workersSpawned' = workersSpawned + 1
    /\ ch = channelsCreated'
    /\ controller' = ch
    /\ wpc[ch] = "none"
    /\ wpc'[ch] = "start"
    /\ queue'[ch] = <<>>

C9_FailedStartupState ==
    \A ch \in Channels :
        startFailed[ch] =>
            /\ controller = ch
            /\ wpc[ch] \in {"uninit", "exit", "done"}
            /\ endpoint[ch] = "none"
            /\ \A t \in Threads :
                  (op[t] \in CommandOps /\ began[t].chan = ch) =>
                      /\ ~work[t].done
                      /\ Returned(t) => result[t] \in ChannelErrors
                      /\ (pc[t] = "waiting" /\ wpc[ch] = "done") => reply[t] = Closed
                      /\ pc[t] = "waiting" => (lock = t /\ reply[t] \in {Empty, Closed})

\* a caller is blocked in recv() on the channel of a worker whose startup failed
WaitingOnFailedWorker ==
    \E t \in Threads : pc[t] = "waiting" /\ began[t].chan # 0 /\ startFailed[began[t].chan]

\* C9: when the worker's startup fails (CoInitializeEx, get_audio_endpoint,
\* or the non-Windows stub) it never enters the command loop and the
\* controller keeps the sender; every command sent on that channel returns
\* "send failed" or "receive failed", never "not initialized" and never an
\* Ok level; and every caller waiting on that channel, also one whose
\* command was queued before the receiver was dropped, eventually returns.
C9_FailedStartup ==
    /\ []C9_FailedStartupState
    /\ WaitingOnFailedWorker ~> ~WaitingOnFailedWorker

\* a command queued before the failed worker dropped the receiver has
\* returned "receive failed", and a later one "send failed"
C9_Witness ==
    /\ startFailed[1]
    /\ wpc[1] = "done"
    /\ \E t \in Threads : op[t] \in CommandOps /\ result[t] = RecvFailed
    /\ \E t \in Threads : op[t] \in CommandOps /\ result[t] = SendFailed

\* C10: a call that returns a result produced by the worker (an Ok level or
\* a native error) returns after the worker has processed that call's own
\* command, and returns exactly the reply the worker computed for it.
C10_OwnReply ==
    \A t \in Threads :
        (op[t] \in CommandOps /\ result[t].tag \in WorkerTags) =>
            /\ work[t].done
            /\ work[t].res = result[t]
            /\ reply[t] = Closed

\* two callers have each received their own, different, reply
C10_Witness ==
    /\ \A t \in Threads : op[t] \in CommandOps /\ result[t].tag = "Ok" /\ work[t].res = result[t]
    /\ \E t, u \in Threads : result[t].v # result[u].v

\* C11: for every GetVolume / SetVolume / VolumeUp / VolumeDown command the
\* worker has handled it has sent exactly one reply on that command's reply
\* channel, whether the native calls succeeded or failed; the waiting caller
\* finds that reply, and finds nothing before its command is handled.
C11_ExactlyOneReply ==
    \A t \in Threads :
        /\ work[t].done =>
              /\ work[t].sent = 1
              /\ work[t].res.tag \in WorkerTags
              /\ pc[t] = "waiting" => reply[t] = work[t].res
        /\ (pc[t] = "waiting" /\ ~work[t].done) =>
              \/ reply[t] = Empty
              \/ reply[t] = Closed /\ wpc[began[t].chan] = "done"

\* a command whose native write failed has been answered, once, with the error
C11_Witness ==
    \E t \in Threads :
        /\ work[t].done
        /\ work[t].sent = 1
        /\ work[t].res = ErrSet
        /\ result[t] = ErrSet

LoopLeft(ch) == wpc[ch] \in {"uninit", "release", "exit", "done"} /\ ~startFailed[ch]

\* C12: a native failure is answered with an error for that command only
\* and does not end the loop: the worker leaves the loop only for a Shutdown
\* command or a closed channel, and is back at rx.recv() after a failed
\* command; a failed command leaves the endpoint level as it was, and when
\* the read of volume_up / volume_down fails no write is attempted.
C12_NativeFailureIsLocal ==
    /\ \A ch \in Channels : LoopLeft(ch) => (shutdownReturned = "sent" \/ controller # ch)
    /\ \A t \in Threads :
          (work[t].done /\ work[t].res \in {ErrGet, ErrSet}) =>
              /\ (op[t] \in StepOps /\ work[t].res = ErrGet) => work[t].wrote = {}
              /\ pc[t] = "waiting" =>
                    /\ wpc[began[t].chan] = "loop"
                    /\ work[t].before = {level}

\* after a command that failed, the worker has answered a later one with Ok
C12_Witness ==
    \E t, u \in Threads :
        /\ op[t] \in StepOps
        /\ Returned(t)
        /\ result[t] = ErrGet
        /\ pc[u] = "waiting"
        /\ work[u].done
        /\ work[u].res.tag = "Ok"

\* C13: the worker calls CoUninitialize only after a successful
\* CoInitializeEx and at most once; when it is past its last statement it has
\* called it exactly once if CoInitializeEx succeeded (endpoint failure,
\* Shutdown, closed channel) and not at all if it failed.
C13_UninitOnce ==
    \A ch \in Channels :
        /\ comInits[ch] <= 1
        /\ comUninits[ch] <= comInits[ch]
        /\ wpc[ch] \in {"com", "loop", "write", "uninit"} => (comInits[ch] = 1 /\ comUninits[ch] = 0)
        /\ wpc[ch] \in {"release", "exit", "done"} => comUninits[ch] = comInits[ch]
        /\ (wpc[ch] \in {"exit", "done"} /\ comInits[ch] = 0) => startFailed[ch]

\* the worker has ended after a Shutdown, having uninitialized COM once
C13_Witness ==
    /\ wpc[1] = "done"
    /\ ~startFailed[1]
    /\ comInits[1] = 1
    /\ comUninits[1] = 1

\* C14: the controller lock is not held while a caller waits for its reply,
\* so that another caller, init or shutdown can take it meanwhile.
C14_LockFreeDuringRoundTrip ==
    \A t \in Threads : pc[t] = "waiting" => lock = 0

\* C15: only one worker thread ever holds an endpoint handle, and the native
\* calls are its calls; between the read and the write of a VolumeUp or
\* VolumeDown no other native call is made: the latest native call is that
\* read, the level is the level read, and no other worker is in such a step.
C15_RunToCompletion ==
    /\ Cardinality({ch \in Channels : endpoint[ch] # "none"}) <= 1
    /\ lastNative # 0 => endpoint[lastNative] # "none"
    /\ \A ch \in Channels :
          /\ wpc[ch] = "write" =>
                /\ lastNative = ch
                /\ Len(inflight[ch]) = 1
                /\ level = inflight[ch][1].cur
                /\ \A other \in Channels \ {ch} : wpc[other] # "write"
          /\ wpc[ch] # "write" => inflight[ch] = <<>>

\* the worker is between the read and the write of a step, after it has
\* completed another caller's command
C15_Witness ==
    \E ch \in Channels, t \in Threads :
        /\ wpc[ch] = "write"
        /\ lastNative = ch
        /\ Returned(t)
        /\ result[t].tag = "Ok"
        /\ op[t] \in CommandOps

\* C16: shutdown_volume_controller never waits on the worker: a thread that
\* is not in a call can always run it to its return, whatever the worker
\* has or has not done.
C16_ShutdownNeverWaits ==
    \A t \in Threads :
        (pc[t] = "idle" /\ calls < MaxCalls) => ENABLED shutdown_volume_controller(t)

\* C17: every level passed to SetMasterVolumeLevelScalar and every Ok level
\* returned to a caller lies in [0.0, 1.0].
C17_LevelsInRange ==
    \A t \in Threads :
        /\ \A w \in work[t].wrote : InRange(w)
        /\ result[t].tag = "Ok" => InRange(result[t].v)

\* C18: the shortcut handler emits "volume-changed" only when its volume_up
\* / volume_down call succeeded.
C18_EmitOnlyOnSuccess ==
    \A t \in Threads : shortcut[t] = "emitted" => result[t].tag = "Ok"

\* C19: once CoUninitialize has run on the worker thread, no endpoint handle
\* is held any more.
C19_ReleaseBeforeUninit ==
    \A ch \in Channels : comUninits[ch] > 0 => endpoint[ch] # "held"

\* C20: with the worker scheduled fairly and native calls returning, a caller
\* blocked in a get_volume / set_volume / volume_up / volume_down call
\* eventually returns and the controller lock is released, also when its
\* command sits behind a Shutdown the worker has not processed yet.
C20_CallsReturn ==
    (\E t \in Threads : pc[t] = "waiting" \/ lock # 0) ~> (lock = 0 /\ \A t \in Threads : pc[t] = "idle")

\* a call whose command was queued behind Shutdown has returned "receive
\* failed" after the worker released everything and ended
C20_Witness ==
    \E t \in Threads :
        /\ op[t] \in CommandOps
        /\ began[t].shutdown = "sent"
        /\ result[t] = RecvFailed
        /\ ~startFailed[1]
        /\ endpoint[1] = "released"
        /\ wpc[1] = "done"
        /\ lock = 0

====
